---- MODULE Spec2Model ----
(***************************************************************************)
(* PhysioTrack: the local store (services/dbService.ts), the session-entry *)
(* form (components/SessionForm.tsx) and the signature capture widget      *)
(* (components/SignaturePad.tsx).                                           *)
(*                                                                         *)
(* Strings whose characters matter to the code (usernames and credentials, *)
(* compared after toLowerCase() or by ===; patient names, tested after     *)
(* trim()) are sequences of one-character strings.  Strings the code only  *)
(* copies (display names, ids, messages) are TLA+ strings.                 *)
(***************************************************************************)
EXTENDS Naturals, Sequences, FiniteSets, TLC

VARIABLES
    db,            \* DBService.db: [users, sessions]
    localStorage,  \* window.localStorage: the items stored, by key
    call,          \* the last store operation invoked, with its arguments
    ret,           \* what that operation returned
    currentUser,   \* App: the logged-in account, or NULL
    currentRoute,  \* App: "login", "register", "log" or "payroll"
    sessions,      \* App: the session list held for display
    patientName,   \* SessionForm state
    treatmentType,
    duration,
    signature,
    isSubmitting,
    isDrawing,     \* SignaturePad state
    hasSignature,
    canvas,        \* the segments stroked on the drawing surface since it was last blank
    timers,        \* pending setTimeout callbacks of handleSubmit, oldest first
    now,           \* the clock new Date() reads: the accepted submits so far
    callbacks,     \* the SignaturePad callbacks the last handler invoked, in order
    alerts,        \* the alert() messages the last handler showed
    strokeMoves,   \* history: whether a move event has drawn in the stroke in progress
    inkMoves,      \* history: whether one has drawn in it since the surface was last cleared
    error,         \* LoginPage: the inline error message
    successMsg,    \* LoginPage: the inline success message
    selectedMonth, \* PayrollDashboard state
    selectedYear,
    selectedTherapistId,
    aiReport,
    loadingAi,
    requests       \* the generatePayrollAnalysis calls that have not returned yet

storeVars == <<db, localStorage, call, ret>>

appVars == <<currentUser, currentRoute, sessions>>

formVars == <<patientName, treatmentType, duration, signature, isSubmitting>>

padVars == <<isDrawing, hasSignature, canvas, strokeMoves, inkMoves>>

loginVars == <<error, successMsg>>

dashVars == <<selectedMonth, selectedYear, selectedTherapistId, aiReport, loadingAi, requests>>

uiVars == <<appVars, formVars, padVars, loginVars, dashVars, timers, now, callbacks, alerts>>

vars == <<storeVars, uiVars>>

NULL == [null |-> TRUE]

-----------------------------------------------------------------------------
(* Bounds of the model. *)

MaxUsers == 5
MaxSessions == 3
MaxSubmits == 2
MaxInk == 1
MaxRequests == 2

-----------------------------------------------------------------------------
(* String.prototype.toLowerCase on the ASCII letters. *)

UpperCaseLetters ==
    <<"A","B","C","D","E","F","G","H","I","J","K","L","M",
      "N","O","P","Q","R","S","T","U","V","W","X","Y","Z">>

LowerCaseLetters ==
    <<"a","b","c","d","e","f","g","h","i","j","k","l","m",
      "n","o","p","q","r","s","t","u","v","w","x","y","z">>

toLowerCaseMap ==
    [c \in {UpperCaseLetters[i] : i \in 1..Len(UpperCaseLetters)} |->
        LowerCaseLetters[CHOOSE i \in 1..Len(UpperCaseLetters) : UpperCaseLetters[i] = c]]

toLowerCaseChar(c) == IF c \in DOMAIN toLowerCaseMap THEN toLowerCaseMap[c] ELSE c

toLowerCase(s) == [i \in 1..Len(s) |-> toLowerCaseChar(s[i])]

-----------------------------------------------------------------------------
(* Seed data. *)

INITIAL_USERS ==
    << [id |-> "admin-1", username |-> <<"a","d","m","i","n">>,
        name |-> "Clinic Manager", role |-> "admin",
        passwordHash |-> <<"p","h","y","s","i","o","1","2","3">>],
       [id |-> "user-1", username |-> <<"j","a","n","e">>,
        name |-> "Jane Doe", role |-> "therapist",
        passwordHash |-> <<"p","a","s","s","w","o","r","d">>],
       [id |-> "user-2", username |-> <<"m","a","r","k">>,
        name |-> "Mark Smith", role |-> "therapist",
        passwordHash |-> <<"p","a","s","s","w","o","r","d">>] >>

INITIAL_DB == [users |-> INITIAL_USERS, sessions |-> <<>>]

(* The store before the module has constructed it, or after its            *)
(* construction threw.                                                      *)
UNCONSTRUCTED == [unconstructed |-> TRUE]

(* A text is [json |-> v] when it is the JSON text of the value v, and      *)
(* [text |-> t] when it is the text t, which is not JSON.  The values the   *)
(* store holds are strings, numbers, arrays and plain objects with no       *)
(* undefined field: their JSON text keeps every field and the array order.  *)
JSON_stringify(d) == [json |-> d]

parses(text) == "json" \in DOMAIN text

JSON_parse(text) == text.json

(* if (stored): null and the empty string are falsy. *)
truthy(stored) == stored # NULL /\ stored # [text |-> ""]

DB_KEY == "physiotrack_db_v3"

(* The key an earlier version of the application stored its document under. *)
OLDER_KEY == "physiotrack_db_v2"

getItem(storage, key) == IF key \in DOMAIN storage THEN storage[key] ELSE NULL

setItem(storage, key, value) == (key :> value) @@ storage

(* A property read of a value that is null or lacks the property. *)
has(d, field) == d # NULL /\ field \in DOMAIN d

TypeError == [throws |-> "TypeError"]

SyntaxError == [throws |-> "SyntaxError"]

-----------------------------------------------------------------------------
(* The values the operations are called with. *)

UsernameInputs ==
    { <<"A","D","M","I","N">>, <<"j","a","n","e">>, <<"s","a","m">>, <<"S","A","M">> }

PasswordInputs ==
    { <<"p","h","y","s","i","o","1","2","3">>, <<"p","a","s","s","w","o","r","d">>,
      <<"P","a","s","s">>, <<"p","a","s","s">> }

(* What registerUser is called with. *)
RegisterUsernames == { <<"J","A","N","E">>, <<"s","a","m">>, <<"S","A","M">>, <<"b","o">> }

RegisterPasswords == { <<"P","a","s","s">> }

NameInputs == {"Sam"}

RoleInputs == {"admin", "therapist"}

(* Math.random().toString(36).substring(2, 10): some base-36 text; nothing  *)
(* keeps two draws apart.                                                   *)
RandomIds == {"k3f9x0ab", "z81qm2cd"}

(* The draw the store-level runs use: the store never reads an account id. *)
StoreIds == {"k3f9x0ab"}

UserIds == {"admin-1", "user-1", "user-2"} \cup RandomIds

TreatmentType == [PHYSIOTHERAPY |-> "Physiotherapy", SPORTS_MASSAGE |-> "Sports Massage"]

-----------------------------------------------------------------------------
(* DBService *)

save(storage, d) == setItem(storage, DB_KEY, JSON_stringify(d))

find(users, username) ==
    LET lowered == toLowerCase(username)
        hits == {i \in 1..Len(users) :
                    toLowerCase(users[i].username) = lowered}
    IN  IF hits = {} THEN NULL
        ELSE users[CHOOSE i \in hits : \A j \in hits : i <= j]

(* Variant: the stored account is returned as it is. *)
safeUser_keepsPasswordHash(u) == u

safeUser(u) == [id |-> u.id, username |-> u.username, name |-> u.name, role |-> u.role]

(* Variant: the credential is compared without regard to letter case. *)
login_ignoresCredentialCase(users, username, password) ==
    LET user == find(users, username)
    IN  IF user # NULL /\ toLowerCase(user.passwordHash) = toLowerCase(password)
        THEN safeUser(user)
        ELSE NULL

login(users, username, password) ==
    LET user == find(users, username)
    IN  IF user # NULL /\ user.passwordHash = password
        THEN safeUser(user)
        ELSE NULL

(* Variant: the username is compared as spelled. *)
exists_exactMatch(users, username) ==
    \E i \in 1..Len(users) : users[i].username = username

exists(users, username) ==
    \E i \in 1..Len(users) : toLowerCase(users[i].username) = toLowerCase(username)

newUser(id, name, username, password, role) ==
    [id |-> id, name |-> name, username |-> username,
     passwordHash |-> password, role |-> role]

(* Variant: the account is added at the front. *)
push_atFront(users, u) == <<u>> \o users

push(users, u) == Append(users, u)

(* Variant: the session is added at the end. *)
unshift_appendsAtEnd(list, s) == Append(list, s)

(* Variant: the session takes the place of the first one. *)
unshift_replacesHead(list, s) ==
    IF list = <<>> THEN <<s>> ELSE <<s>> \o Tail(list)

unshift(list, s) == <<s>> \o list

(* Variant: the accounts are not filtered by role. *)
getAllTherapists_includesAdmins(users) ==
    [i \in 1..Len(users) |-> safeUser(users[i])]

getAllTherapists(users) ==
    LET therapists == SelectSeq(users, LAMBDA u : u.role = "therapist")
    IN  [i \in 1..Len(therapists) |-> safeUser(therapists[i])]

(* Variant: the role is not consulted. *)
getSessions_ignoresRole(list, userId, role) ==
    SelectSeq(list, LAMBDA s : s.therapistId = userId)

getSessions(list, userId, role) ==
    IF role = "admin"
    THEN list
    ELSE SelectSeq(list, LAMBDA s : s.therapistId = userId)

-----------------------------------------------------------------------------
(* The store as its callers see it: each operation invoked with any of the  *)
(* inputs, on the store as the earlier calls left it.                       *)

SessionIds == {"s4kq0pz81mm2a", "b07xw3n5tt9rc"}

Session(id, therapistId) ==
    [id |-> id, therapistId |-> therapistId, therapistName |-> "Jane Doe",
     patientName |-> <<"P">>, treatmentType |-> TreatmentType.SPORTS_MASSAGE,
     durationMinutes |-> 60, timestamp |-> 0, signatureDataUrl |-> [dataUrl |-> 1]]

SessionInputs ==
    { Session("s4kq0pz81mm2a", "user-1"), Session("b07xw3n5tt9rc", "user-1"),
      Session("s4kq0pz81mm2a", "user-2") }

(* The clock counts months from January 2025: Date.prototype.getMonth and  *)
(* getFullYear of an instant.                                               *)
getMonth(t) == t % 12

getFullYear(t) == 2025 + (t \div 12)

(* The application before anyone has logged in. *)
UiInit ==
    /\ currentUser = NULL
    /\ currentRoute = "login"
    /\ sessions = <<>>
    /\ patientName = <<>>
    /\ treatmentType = TreatmentType.SPORTS_MASSAGE
    /\ duration = 60
    /\ signature = NULL
    /\ isSubmitting = FALSE
    /\ isDrawing = FALSE
    /\ hasSignature = FALSE
    /\ canvas = 0
    /\ strokeMoves = FALSE
    /\ inkMoves = FALSE
    /\ timers = <<>>
    /\ now = 0
    /\ callbacks = <<>>
    /\ alerts = <<>>
    /\ error = ""
    /\ successMsg = ""
    /\ selectedMonth = getMonth(0)
    /\ selectedYear = getFullYear(0)
    /\ selectedTherapistId = "all"
    /\ aiReport = NULL
    /\ loadingAi = FALSE
    /\ requests = <<>>

StoreInit ==
    /\ db = INITIAL_DB
    /\ localStorage = save(<<>>, INITIAL_DB)
    /\ call = [op |-> "constructor"]
    /\ ret = NULL
    /\ UiInit

(* Variant: the seed data is not persisted. *)
constructor_seedsWithoutSave ==
    LET stored == getItem(localStorage, DB_KEY)
    IN  /\ call' = [op |-> "constructor"]
        /\ IF truthy(stored)
           THEN IF parses(stored)
                THEN /\ db' = JSON_parse(stored)
                     /\ ret' = NULL
                     /\ UNCHANGED localStorage
                ELSE /\ db' = UNCONSTRUCTED
                     /\ ret' = SyntaxError
                     /\ UNCHANGED localStorage
           ELSE /\ db' = INITIAL_DB
                /\ ret' = NULL
                /\ UNCHANGED localStorage

(* A page load: the module constructs the store.  JSON.parse throws on a    *)
(* text that is not JSON, and the exception leaves the module without a     *)
(* store.                                                                   *)
constructor ==
    LET stored == getItem(localStorage, DB_KEY)
    IN  /\ call' = [op |-> "constructor"]
        /\ IF truthy(stored)
           THEN IF parses(stored)
                THEN /\ db' = JSON_parse(stored)
                     /\ ret' = NULL
                     /\ UNCHANGED localStorage
                ELSE /\ db' = UNCONSTRUCTED
                     /\ ret' = SyntaxError
                     /\ UNCHANGED localStorage
           ELSE /\ db' = INITIAL_DB
                /\ localStorage' = save(localStorage, db')
                /\ ret' = NULL

(* this.db.users of a document that is null or has no users: a TypeError. *)
loginCall(username, password) ==
    /\ call' = [op |-> "login", username |-> username, password |-> password]
    /\ ret' = IF has(db, "users") THEN login(db.users, username, password) ELSE TypeError
    /\ UNCHANGED <<db, localStorage>>

(* Variant: the account is stored before the username check reports. *)
registerUser_pushThenCheck(id, name, username, password, role) ==
    /\ db' = [db EXCEPT !.users = push(@, newUser(id, name, username, password, role))]
    /\ localStorage' = save(localStorage, db')
    /\ ret' = IF exists(db.users, username)
              THEN [success |-> FALSE, message |-> "Username already taken."]
              ELSE [success |-> TRUE, message |-> "Account created successfully."]

registerUser(id, name, username, password, role) ==
    IF exists(db.users, username)
    THEN /\ ret' = [success |-> FALSE, message |-> "Username already taken."]
         /\ UNCHANGED <<db, localStorage>>
    ELSE /\ db' = [db EXCEPT !.users = push(@, newUser(id, name, username, password, role))]
         /\ localStorage' = save(localStorage, db')
         /\ ret' = [success |-> TRUE, message |-> "Account created successfully."]

registerUserCall(id, name, username, password, role) ==
    /\ call' = [op |-> "registerUser", name |-> name, username |-> username,
                password |-> password, role |-> role]
    /\ IF has(db, "users")
       THEN /\ exists(db.users, username) \/ Len(db.users) < MaxUsers
            /\ registerUser(id, name, username, password, role)
       ELSE /\ ret' = TypeError
            /\ UNCHANGED <<db, localStorage>>

(* Variant: the session is added in memory only. *)
addSession_skipsSave(session) ==
    /\ db' = [db EXCEPT !.sessions = unshift(@, session)]
    /\ UNCHANGED localStorage

addSession(session) ==
    /\ db' = [db EXCEPT !.sessions = unshift(@, session)]
    /\ localStorage' = save(localStorage, db')

addSessionCall(session) ==
    /\ call' = [op |-> "addSession", session |-> session]
    /\ IF has(db, "sessions")
       THEN /\ Len(db.sessions) < MaxSessions
            /\ ret' = NULL
            /\ addSession(session)
       ELSE /\ ret' = TypeError
            /\ UNCHANGED <<db, localStorage>>

(* For the administrator role this.db.sessions is returned as it is, also   *)
(* when the document has none; the filter of the other roles throws then.   *)
getSessionsCall(userId, role) ==
    /\ call' = [op |-> "getSessions", userId |-> userId, role |-> role]
    /\ ret' = IF has(db, "sessions") THEN getSessions(db.sessions, userId, role)
              ELSE IF db # NULL /\ role = "admin" THEN [undefined |-> TRUE]
              ELSE TypeError
    /\ UNCHANGED <<db, localStorage>>

getAllTherapistsCall ==
    /\ call' = [op |-> "getAllTherapists"]
    /\ ret' = IF has(db, "users") THEN getAllTherapists(db.users) ELSE TypeError
    /\ UNCHANGED <<db, localStorage>>

StoreNext ==
    \/ constructor /\ UNCHANGED uiVars
    \/ \E u \in UsernameInputs, p \in PasswordInputs :
          loginCall(u, p) /\ UNCHANGED uiVars
    \/ \E id \in StoreIds, n \in NameInputs, u \in RegisterUsernames,
          p \in RegisterPasswords, r \in RoleInputs :
          registerUserCall(id, n, u, p, r) /\ UNCHANGED uiVars
    \/ \E s \in SessionInputs : addSessionCall(s) /\ UNCHANGED uiVars
    \/ \E id \in {"admin-1", "user-1", "user-2"}, r \in RoleInputs :
          getSessionsCall(id, r) /\ UNCHANGED uiVars
    \/ getAllTherapistsCall /\ UNCHANGED uiVars

StoreSpec == StoreInit /\ [][StoreNext]_vars

-----------------------------------------------------------------------------
(* The store from the page load on: the constructor runs on whatever the    *)
(* browser holds under the storage keys, then the operations are invoked on *)
(* the store it made; a reload constructs the store anew.                   *)

(* A document an earlier run of the application persisted. *)
StoredDb ==
    [users |-> INITIAL_USERS \o
                  <<newUser("k3f9x0ab", "Sam", <<"s","a","m">>, <<"P","a","s","s">>, "therapist")>>,
     sessions |-> <<Session("b07xw3n5tt9rc", "user-2"), Session("s4kq0pz81mm2a", "user-1")>>]

(* Texts under a key that are not the document of a store: the empty text,  *)
(* a text that is not JSON, "null", and documents without the users or the  *)
(* sessions array.                                                          *)
MalformedItems ==
    { [text |-> ""], [text |-> "{oops"], JSON_stringify(NULL),
      JSON_stringify([users |-> INITIAL_USERS]),
      JSON_stringify([sessions |-> StoredDb.sessions]) }

StoredItems == {JSON_stringify(StoredDb)} \cup MalformedItems

storageOf(item, older) ==
    (IF item = NULL THEN <<>> ELSE DB_KEY :> item)
        @@ (IF older = NULL THEN <<>> ELSE OLDER_KEY :> older)

LoadInit ==
    /\ \E item \in {NULL} \cup StoredItems, older \in {NULL, JSON_stringify(StoredDb)} :
          localStorage = storageOf(item, older)
    /\ db = UNCONSTRUCTED
    /\ call = [op |-> "none"]
    /\ ret = NULL
    /\ UiInit

constructed == db # UNCONSTRUCTED

LoadSessionInputs == {Session("s4kq0pz81mm2a", "user-1"), Session("s4kq0pz81mm2a", "user-2")}

LoadNext ==
    \/ constructor /\ UNCHANGED uiVars
    \/ /\ constructed
       /\ \E u \in {<<"j","a","n","e">>, <<"S","A","M">>},
             p \in {<<"p","a","s","s","w","o","r","d">>, <<"P","a","s","s">>} :
             loginCall(u, p)
       /\ UNCHANGED uiVars
    \/ /\ constructed
       /\ \E id \in StoreIds, n \in NameInputs, u \in {<<"s","a","m">>, <<"b","o">>},
             p \in RegisterPasswords :
             registerUserCall(id, n, u, p, "therapist")
       /\ UNCHANGED uiVars
    \/ /\ constructed
       /\ \E s \in LoadSessionInputs : addSessionCall(s)
       /\ UNCHANGED uiVars
    \/ /\ constructed
       /\ \E r \in RoleInputs : getSessionsCall("user-1", r)
       /\ UNCHANGED uiVars
    \/ /\ constructed
       /\ getAllTherapistsCall
       /\ UNCHANGED uiVars

LoadSpec == LoadInit /\ [][LoadNext]_vars

-----------------------------------------------------------------------------
(* String.prototype.trim *)

isWhitespace(c) == c \in {" ", "\t", "\n"}

RECURSIVE trimStart(_)
trimStart(s) ==
    IF s # <<>> /\ isWhitespace(Head(s)) THEN trimStart(Tail(s)) ELSE s

RECURSIVE trimEnd(_)
trimEnd(s) ==
    IF s # <<>> /\ isWhitespace(s[Len(s)]) THEN trimEnd(SubSeq(s, 1, Len(s) - 1)) ELSE s

(* Variant: the text is tested as typed. *)
trim_asTyped(s) == s

trim(s) == trimEnd(trimStart(s))

-----------------------------------------------------------------------------
(* SignaturePad *)

(* canvas.toDataURL(): the image of what the surface holds. *)
toDataURL(c) == [dataUrl |-> c]

(* onEnd={setSignature} and onClear={() => setSignature(null)}: the         *)
(* signature the form holds after the callbacks cbs ran on it, in order.    *)
RECURSIVE afterCallbacks(_, _)
afterCallbacks(sig, cbs) ==
    IF cbs = <<>> THEN sig
    ELSE afterCallbacks(IF Head(cbs).name = "onEnd" THEN Head(cbs).arg ELSE NULL, Tail(cbs))

onEnd(dataUrl) == [name |-> "onEnd", arg |-> dataUrl]

onClear == [name |-> "onClear"]

startDrawing ==
    /\ isDrawing' = TRUE
    /\ strokeMoves' = FALSE
    /\ inkMoves' = FALSE
    /\ callbacks' = <<>>
    /\ UNCHANGED <<hasSignature, canvas, signature>>

(* Variant: the move handler draws whether or not a stroke is in progress. *)
draw_ignoresIsDrawing ==
    /\ canvas < MaxInk
    /\ canvas' = canvas + 1
    /\ hasSignature' = TRUE
    /\ strokeMoves' = isDrawing
    /\ inkMoves' = isDrawing
    /\ callbacks' = <<>>
    /\ UNCHANGED <<isDrawing, signature>>

draw ==
    IF ~isDrawing
    THEN /\ callbacks' = <<>>
         /\ UNCHANGED <<isDrawing, hasSignature, canvas, strokeMoves, inkMoves, signature>>
    ELSE /\ canvas < MaxInk
         /\ canvas' = canvas + 1
         /\ hasSignature' = TRUE
         /\ strokeMoves' = TRUE
         /\ inkMoves' = TRUE
         /\ callbacks' = <<>>
         /\ UNCHANGED <<isDrawing, signature>>

endDrawingCallbacks ==
    IF hasSignature THEN <<onEnd(toDataURL(canvas))>> ELSE <<>>

endDrawing ==
    IF ~isDrawing
    THEN /\ callbacks' = <<>>
         /\ UNCHANGED <<isDrawing, hasSignature, canvas, strokeMoves, inkMoves, signature>>
    ELSE /\ isDrawing' = FALSE
         /\ strokeMoves' = FALSE
         /\ inkMoves' = FALSE
         /\ callbacks' = endDrawingCallbacks
         /\ signature' = afterCallbacks(signature, callbacks')
         /\ UNCHANGED <<hasSignature, canvas>>

(* Variant: the surface is wiped but still counts as signed. *)
clearCanvas_keepsHasSignature ==
    /\ canvas' = 0
    /\ callbacks' = <<onEnd(NULL), onClear>>
    /\ signature' = afterCallbacks(signature, callbacks')
    /\ inkMoves' = FALSE
    /\ UNCHANGED <<isDrawing, hasSignature, strokeMoves>>

clearCanvas ==
    /\ canvas' = 0
    /\ hasSignature' = FALSE
    /\ callbacks' = <<onEnd(NULL), onClear>>
    /\ signature' = afterCallbacks(signature, callbacks')
    /\ inkMoves' = FALSE
    /\ UNCHANGED <<isDrawing, strokeMoves>>

-----------------------------------------------------------------------------
(* SessionForm *)

PatientNameInputs == { <<>>, <<" ">>, <<" ", "P">> }

DurationOptions == {40, 45, 60}

FormSessionIds == {"s4kq0pz81mm2a"}

(* The state of a SessionForm, and of the SignaturePad in it, when mounted. *)
mountForm ==
    /\ patientName' = <<>>
    /\ treatmentType' = TreatmentType.SPORTS_MASSAGE
    /\ duration' = 60
    /\ signature' = NULL
    /\ isSubmitting' = FALSE
    /\ isDrawing' = FALSE
    /\ hasSignature' = FALSE
    /\ canvas' = 0
    /\ strokeMoves' = FALSE
    /\ inkMoves' = FALSE

(* Variant: the form is rendered on the log route for any logged-in user. *)
formMounted_ignoresRole(user, route) ==
    user # NULL /\ route = "log"

(* App, lines 312-318: the form is rendered for a therapist on the log route. *)
formMounted(user, route) ==
    user # NULL /\ route = "log" /\ user.role = "therapist"

setPatientName(value) ==
    /\ patientName' = value
    /\ UNCHANGED <<treatmentType, duration, signature, isSubmitting>>

(* Variant: the duration is left as it was. *)
handleTypeChange_keepsDuration(type) ==
    /\ treatmentType' = type
    /\ UNCHANGED <<patientName, duration, signature, isSubmitting>>

handleTypeChange(type) ==
    /\ treatmentType' = type
    /\ duration' = IF type = TreatmentType.PHYSIOTHERAPY THEN 45 ELSE 60
    /\ UNCHANGED <<patientName, signature, isSubmitting>>

(* The duration select: disabled for physiotherapy, else 40, 45 or 60. *)
setDuration(value) ==
    /\ treatmentType # TreatmentType.PHYSIOTHERAPY
    /\ value \in DurationOptions
    /\ duration' = value
    /\ UNCHANGED <<patientName, treatmentType, signature, isSubmitting>>

newSession(id) ==
    [id |-> id, therapistId |-> currentUser.id, therapistName |-> currentUser.name,
     patientName |-> patientName, treatmentType |-> treatmentType,
     durationMinutes |-> duration, timestamp |-> now, signatureDataUrl |-> signature]

handleSubmit(id) ==
    /\ ~isSubmitting
    /\ IF signature = NULL
       THEN /\ alerts' = <<"Patient signature is required to verify the session.">>
            /\ UNCHANGED <<isSubmitting, timers, now>>
       ELSE IF trim(patientName) = <<>>
       THEN /\ alerts' = <<"Patient name is required.">>
            /\ UNCHANGED <<isSubmitting, timers, now>>
       ELSE /\ Len(db.sessions) + Len(timers) < MaxSubmits
            /\ isSubmitting' = TRUE
            /\ timers' = Append(timers, [session |-> newSession(id),
                                         user |-> currentUser, live |-> TRUE])
            /\ now' = now + 1
            /\ alerts' = <<>>
    /\ UNCHANGED <<patientName, treatmentType, duration, signature>>

(* Variant: the callback builds the session from the form as it is when   *)
(* the timer fires.                                                         *)
timeout_readsFormWhenFired ==
    /\ timers # <<>>
    /\ LET t == Head(timers)
           session == [t.session EXCEPT !.patientName = patientName,
                                        !.treatmentType = treatmentType,
                                        !.durationMinutes = duration,
                                        !.signatureDataUrl = signature]
       IN  /\ call' = [op |-> "addSession", session |-> session]
           /\ ret' = NULL
           /\ addSession(session)
           /\ IF t.live
              THEN /\ patientName' = <<>>
                   /\ signature' = NULL
                   /\ treatmentType' = TreatmentType.SPORTS_MASSAGE
                   /\ duration' = 60
                   /\ isSubmitting' = FALSE
              ELSE UNCHANGED formVars
           /\ alerts' = <<"Session logged successfully!">>
           /\ sessions' = getSessions(db'.sessions, t.user.id, t.user.role)
    /\ timers' = Tail(timers)
    /\ UNCHANGED now

(* The callback handleSubmit passed to setTimeout, with onSuccess =          *)
(* handleSessionSuccess and refreshData as the submitting render closed     *)
(* over them.                                                               *)
timeout ==
    /\ timers # <<>>
    /\ LET t == Head(timers)
       IN  /\ call' = [op |-> "addSession", session |-> t.session]
           /\ ret' = NULL
           /\ addSession(t.session)
           /\ IF t.live
              THEN /\ patientName' = <<>>
                   /\ signature' = NULL
                   /\ treatmentType' = TreatmentType.SPORTS_MASSAGE
                   /\ duration' = 60
                   /\ isSubmitting' = FALSE
              ELSE UNCHANGED formVars
           /\ alerts' = <<"Session logged successfully!">>
           /\ sessions' = getSessions(db'.sessions, t.user.id, t.user.role)
    /\ timers' = Tail(timers)
    /\ UNCHANGED now

-----------------------------------------------------------------------------
(* PayrollDashboard *)

MonthOptions == {0, 1, 2}

(* therapists: the accounts getAllTherapists lists. *)
TherapistOptions == {i \in 1..Len(db.users) : db.users[i].role = "therapist"}

YearOptions == {2024, 2025}

(* App, lines 312-351: the dashboard is rendered for a logged-in user       *)
(* wherever the session-entry form is not.                                  *)
dashMounted(user, route) == user # NULL /\ ~formMounted(user, route)

(* The state of a PayrollDashboard when mounted. *)
mountDashboard ==
    /\ selectedMonth' = getMonth(now)
    /\ selectedYear' = getFullYear(now)
    /\ selectedTherapistId' = "all"
    /\ aiReport' = NULL
    /\ loadingAi' = FALSE

(* No dashboard is rendered: its state is gone. *)
unmountDashboard ==
    /\ selectedMonth' = getMonth(0)
    /\ selectedYear' = getFullYear(0)
    /\ selectedTherapistId' = "all"
    /\ aiReport' = NULL
    /\ loadingAi' = FALSE

filteredSessions ==
    SelectSeq(sessions, LAMBDA s :
        /\ getMonth(s.timestamp) = selectedMonth
        /\ getFullYear(s.timestamp) = selectedYear
        /\ (selectedTherapistId = "all" \/ s.therapistId = selectedTherapistId))

setSelectedMonth(value) ==
    /\ selectedMonth' = value
    /\ aiReport' = NULL
    /\ UNCHANGED <<selectedYear, selectedTherapistId, loadingAi, requests>>

setSelectedYear(value) ==
    /\ selectedYear' = value
    /\ aiReport' = NULL
    /\ UNCHANGED <<selectedMonth, selectedTherapistId, loadingAi, requests>>

(* The therapist filter, rendered for the administrator: "all" or one of    *)
(* the therapists.                                                          *)
setSelectedTherapistId(value) ==
    /\ currentUser.role = "admin"
    /\ value \in {"all"} \cup {db.users[i].id : i \in TherapistOptions}
    /\ selectedTherapistId' = value
    /\ aiReport' = NULL
    /\ UNCHANGED <<selectedMonth, selectedYear, loadingAi, requests>>

(* The click on 'Generate Analysis', which is disabled while loadingAi or   *)
(* with no session to report on: the handler up to its await.               *)
handleGenerateReport ==
    /\ ~loadingAi
    /\ filteredSessions # <<>>
    /\ Len(requests) < MaxRequests
    /\ loadingAi' = TRUE
    /\ aiReport' = NULL
    /\ requests' = Append(requests, [sessions |-> filteredSessions,
                                     monthName |-> selectedMonth, live |-> TRUE])
    /\ UNCHANGED <<selectedMonth, selectedYear, selectedTherapistId>>

(* What generatePayrollAnalysis resolves to: the generated text for the     *)
(* sessions and the month it was asked about, or the fallback text.         *)
analysis(request) ==
    [text |-> "analysis", sessions |-> request.sessions, monthName |-> request.monthName]

fallback == [text |-> "Error generating AI analysis. Please check your API key and connection."]

removeAt(seq, i) == SubSeq(seq, 1, i - 1) \o SubSeq(seq, i + 1, Len(seq))

(* generatePayrollAnalysis returns to the handler that awaits it: the rest  *)
(* of handleGenerateReport.  The setters of a dashboard that has been       *)
(* unmounted since change nothing.                                          *)
completion(i, report) ==
    /\ i \in 1..Len(requests)
    /\ IF requests[i].live
       THEN /\ aiReport' = report
            /\ loadingAi' = FALSE
       ELSE UNCHANGED <<aiReport, loadingAi>>
    /\ requests' = removeAt(requests, i)
    /\ UNCHANGED <<selectedMonth, selectedYear, selectedTherapistId>>

(* What a change of the rendered view does to the PayrollDashboard: a       *)
(* dashboard that stops being rendered is unmounted, the requests it made   *)
(* outlive it, and a dashboard rendered again starts from its initial       *)
(* state.                                                                   *)
remountDashboard(user, route) ==
    IF dashMounted(currentUser, currentRoute) /\ ~dashMounted(user, route)
    THEN /\ unmountDashboard
         /\ requests' = [i \in 1..Len(requests) |-> [requests[i] EXCEPT !.live = FALSE]]
    ELSE IF ~dashMounted(currentUser, currentRoute) /\ dashMounted(user, route)
    THEN /\ mountDashboard
         /\ UNCHANGED requests
    ELSE UNCHANGED dashVars

-----------------------------------------------------------------------------
(* App and LoginPage *)

Routes == {"login", "register", "log", "payroll"}

AppUsernames ==
    { <<"A","D","M","I","N">>, <<"j","a","n","e">>, <<"m","a","r","k">>, <<"s","a","m">> }

AppPasswords ==
    { <<"p","h","y","s","i","o","1","2","3">>, <<"p","a","s","s","w","o","r","d">>,
      <<"P","a","s","s">>, <<"x">> }

AppRegisterUsernames == { <<"J","A","N","E">>, <<"s","a","m">> }

(* What a change of the rendered view does to the SessionForm: a form that  *)
(* stops being rendered is unmounted, its pending timers outlive it, and a  *)
(* form rendered again starts from its initial state.                       *)
remount(user, route) ==
    IF formMounted(currentUser, currentRoute) /\ ~formMounted(user, route)
    THEN /\ mountForm
         /\ timers' = [i \in 1..Len(timers) |-> [timers[i] EXCEPT !.live = FALSE]]
    ELSE UNCHANGED <<formVars, padVars, timers>>

(* navigate(route) and handleHashChange with the hash naming route. *)
navigate(route) ==
    /\ currentRoute' = route
    /\ remount(currentUser, route)
    /\ remountDashboard(currentUser, route)
    /\ callbacks' = <<>>
    /\ alerts' = <<>>
    /\ UNCHANGED <<storeVars, currentUser, sessions, loginVars, now>>

(* Variant: a username no account has gets a message of its own. *)
handleLogin_namesUnknownUser(username, password) ==
    /\ currentUser = NULL
    /\ currentRoute # "register"
    /\ call' = [op |-> "login", username |-> username, password |-> password]
    /\ ret' = login(db.users, username, password)
    /\ successMsg' = ""
    /\ IF ret' # NULL
       THEN /\ currentUser' = ret'
            /\ error' = ""
            /\ sessions' = getSessions(db.sessions, ret'.id, ret'.role)
            /\ currentRoute' =
                  IF currentRoute \in {"login", "register"}
                  THEN (IF ret'.role = "admin" THEN "payroll" ELSE "log")
                  ELSE currentRoute
            /\ remountDashboard(currentUser', currentRoute')
       ELSE /\ error' = IF exists(db.users, username)
                        THEN "Invalid username or password"
                        ELSE "Unknown username"
            /\ UNCHANGED <<currentUser, sessions, currentRoute, dashVars>>
    /\ callbacks' = <<>>
    /\ alerts' = <<>>
    /\ UNCHANGED <<db, localStorage, formVars, padVars, timers, now>>

(* handleLogin, then the effect on [currentUser]: refreshData and the       *)
(* redirect from a public route.                                            *)
handleLogin(username, password) ==
    /\ currentUser = NULL
    /\ currentRoute # "register"
    /\ call' = [op |-> "login", username |-> username, password |-> password]
    /\ ret' = login(db.users, username, password)
    /\ successMsg' = ""
    /\ IF ret' # NULL
       THEN /\ currentUser' = ret'
            /\ error' = ""
            /\ sessions' = getSessions(db.sessions, ret'.id, ret'.role)
            /\ currentRoute' =
                  IF currentRoute \in {"login", "register"}
                  THEN (IF ret'.role = "admin" THEN "payroll" ELSE "log")
                  ELSE currentRoute
            /\ remountDashboard(currentUser', currentRoute')
       ELSE /\ error' = "Invalid username or password"
            /\ UNCHANGED <<currentUser, sessions, currentRoute, dashVars>>
    /\ callbacks' = <<>>
    /\ alerts' = <<>>
    /\ UNCHANGED <<db, localStorage, formVars, padVars, timers, now>>

handleRegister(id, name, username, password, role) ==
    /\ currentUser = NULL
    /\ currentRoute = "register"
    /\ IF Len(password) < 4
       THEN /\ error' = "Password must be at least 4 characters."
            /\ successMsg' = ""
            /\ UNCHANGED <<storeVars, currentRoute>>
       ELSE /\ exists(db.users, username) \/ Len(db.users) < MaxUsers
            /\ call' = [op |-> "registerUser", name |-> name, username |-> username,
                        password |-> password, role |-> role]
            /\ registerUser(id, name, username, password, role)
            /\ IF ret'.success
               THEN /\ successMsg' = "Account created! Please sign in."
                    /\ error' = ""
                    /\ currentRoute' = "login"
               ELSE /\ error' = ret'.message
                    /\ successMsg' = ""
                    /\ UNCHANGED currentRoute
    /\ callbacks' = <<>>
    /\ alerts' = <<>>
    /\ UNCHANGED <<currentUser, sessions, formVars, padVars, dashVars, timers, now>>

toggleMode ==
    /\ currentUser = NULL
    /\ currentRoute' = IF currentRoute = "register" THEN "login" ELSE "register"
    /\ error' = ""
    /\ successMsg' = ""
    /\ callbacks' = <<>>
    /\ alerts' = <<>>
    /\ UNCHANGED <<storeVars, currentUser, sessions, formVars, padVars, dashVars, timers, now>>

(* handleLogout, then the effect on [currentUser]. *)
handleLogout ==
    /\ currentUser # NULL
    /\ currentUser' = NULL
    /\ sessions' = <<>>
    /\ currentRoute' = "login"
    /\ remount(NULL, "login")
    /\ remountDashboard(NULL, "login")
    /\ error' = ""
    /\ successMsg' = ""
    /\ callbacks' = <<>>
    /\ alerts' = <<>>
    /\ UNCHANGED <<storeVars, now>>

-----------------------------------------------------------------------------
(* The application: every handler of the login page, the session-entry      *)
(* form and the signature pad, and the timer callback, in any order.        *)

(* An event on the canvas or the Clear button of the mounted pad. *)
padEvent(handler) ==
    /\ formMounted(currentUser, currentRoute)
    /\ handler
    /\ alerts' = <<>>
    /\ UNCHANGED <<storeVars, appVars, loginVars, dashVars, timers, now,
                   patientName, treatmentType, duration, isSubmitting>>

(* An edit of a field of the mounted form. *)
formEvent(handler) ==
    /\ formMounted(currentUser, currentRoute)
    /\ handler
    /\ callbacks' = <<>>
    /\ alerts' = <<>>
    /\ UNCHANGED <<storeVars, appVars, loginVars, padVars, dashVars, timers, now>>

submitEvent(id) ==
    /\ formMounted(currentUser, currentRoute)
    /\ handleSubmit(id)
    /\ callbacks' = <<>>
    /\ UNCHANGED <<storeVars, appVars, loginVars, padVars, dashVars>>

timeoutEvent ==
    /\ timeout
    /\ callbacks' = <<>>
    /\ UNCHANGED <<currentUser, currentRoute, loginVars, padVars, dashVars>>

(* An event on the controls of the mounted dashboard. *)
dashEvent(handler) ==
    /\ dashMounted(currentUser, currentRoute)
    /\ handler
    /\ callbacks' = <<>>
    /\ alerts' = <<>>
    /\ UNCHANGED <<storeVars, appVars, loginVars, formVars, padVars, timers, now>>

(* A text-generation request returns: no event of the page is involved. *)
completionEvent(i, report) ==
    /\ completion(i, report)
    /\ UNCHANGED <<storeVars, appVars, loginVars, formVars, padVars, timers, now,
                   callbacks, alerts>>

Init == StoreInit

Next ==
    \/ \E u \in AppUsernames, p \in AppPasswords : handleLogin(u, p)
    \/ \E id \in RandomIds, n \in NameInputs, u \in AppRegisterUsernames,
          p \in AppPasswords, r \in RoleInputs : handleRegister(id, n, u, p, r)
    \/ toggleMode
    \/ handleLogout
    \/ \E route \in Routes : navigate(route)
    \/ padEvent(startDrawing)
    \/ padEvent(draw)
    \/ padEvent(endDrawing)
    \/ padEvent(clearCanvas)
    \/ \E v \in PatientNameInputs : formEvent(setPatientName(v))
    \/ \E type \in {TreatmentType.PHYSIOTHERAPY, TreatmentType.SPORTS_MASSAGE} :
          formEvent(handleTypeChange(type))
    \/ \E v \in DurationOptions : formEvent(setDuration(v))
    \/ \E id \in FormSessionIds : submitEvent(id)
    \/ timeoutEvent
    \/ \E m \in MonthOptions : dashEvent(setSelectedMonth(m))
    \/ \E y \in YearOptions : dashEvent(setSelectedYear(y))
    \/ \E id \in {"all"} \cup UserIds : dashEvent(setSelectedTherapistId(id))
    \/ dashEvent(handleGenerateReport)
    \/ \E i \in 1..Len(requests) : completionEvent(i, analysis(requests[i]))
    \/ \E i \in 1..Len(requests) : completionEvent(i, fallback)

Spec == Init /\ [][Next]_vars

-----------------------------------------------------------------------------
(* The login page: sign-in, registration, the switch between the two, and   *)
(* logout back to it.                                                       *)

LoginNext ==
    \/ \E u \in AppUsernames, p \in AppPasswords : handleLogin(u, p)
    \/ \E id \in RandomIds, n \in NameInputs, u \in AppRegisterUsernames,
          p \in AppPasswords, r \in RoleInputs : handleRegister(id, n, u, p, r)
    \/ toggleMode
    \/ handleLogout

LoginSpec == Init /\ [][LoginNext]_vars

-----------------------------------------------------------------------------
(* One mounted session-entry form and its signature pad, for the seed       *)
(* therapist "jane" logged in on a fresh store: the state handleLogin       *)
(* reaches from Init, and from there every handler of the form and the pad  *)
(* and the timer callback, in any order.                                    *)

FormInit ==
    /\ db = INITIAL_DB
    /\ localStorage = save(<<>>, INITIAL_DB)
    /\ call = [op |-> "login", username |-> <<"j","a","n","e">>,
               password |-> <<"p","a","s","s","w","o","r","d">>]
    /\ ret = safeUser(INITIAL_USERS[2])
    /\ currentUser = safeUser(INITIAL_USERS[2])
    /\ currentRoute = "log"
    /\ sessions = <<>>
    /\ patientName = <<>>
    /\ treatmentType = TreatmentType.SPORTS_MASSAGE
    /\ duration = 60
    /\ signature = NULL
    /\ isSubmitting = FALSE
    /\ isDrawing = FALSE
    /\ hasSignature = FALSE
    /\ canvas = 0
    /\ strokeMoves = FALSE
    /\ inkMoves = FALSE
    /\ timers = <<>>
    /\ now = 0
    /\ callbacks = <<>>
    /\ alerts = <<>>
    /\ error = ""
    /\ successMsg = ""
    /\ selectedMonth = getMonth(0)
    /\ selectedYear = getFullYear(0)
    /\ selectedTherapistId = "all"
    /\ aiReport = NULL
    /\ loadingAi = FALSE
    /\ requests = <<>>

FormNext ==
    \/ padEvent(startDrawing)
    \/ padEvent(draw)
    \/ padEvent(endDrawing)
    \/ padEvent(clearCanvas)
    \/ \E v \in PatientNameInputs : formEvent(setPatientName(v))
    \/ \E type \in {TreatmentType.PHYSIOTHERAPY, TreatmentType.SPORTS_MASSAGE} :
          formEvent(handleTypeChange(type))
    \/ \E v \in DurationOptions : formEvent(setDuration(v))
    \/ \E id \in FormSessionIds : submitEvent(id)
    \/ timeoutEvent

FormSpec == FormInit /\ [][FormNext]_vars

-----------------------------------------------------------------------------
(* The session-entry form with the Sign Out button: the pad, the patient   *)
(* name and treatment kind fields, submit, the timer callback and logout,   *)
(* with the timers of setTimeout firing as long as the page lives.          *)

SubmitNext ==
    \/ padEvent(startDrawing)
    \/ padEvent(draw)
    \/ padEvent(endDrawing)
    \/ padEvent(clearCanvas)
    \/ \E v \in {<<>>, <<" ", "P">>} : formEvent(setPatientName(v))
    \/ \E type \in {TreatmentType.PHYSIOTHERAPY, TreatmentType.SPORTS_MASSAGE} :
          formEvent(handleTypeChange(type))
    \/ \E id \in FormSessionIds : submitEvent(id)
    \/ timeoutEvent
    \/ handleLogout

SubmitSpec == FormInit /\ [][SubmitNext]_vars /\ WF_vars(timeoutEvent)

-----------------------------------------------------------------------------
(* The payroll dashboard: a seed therapist or the administrator logged in   *)
(* on a store that holds sessions logged earlier, the views the navigation  *)
(* buttons switch between, the dashboard's filters and its text-generation  *)
(* requests.                                                                *)

(* The store after the two seed therapists each logged a session, "mark"   *)
(* at instant 0 and "jane" at instant 1.                                    *)
LoggedDb ==
    [users |-> INITIAL_USERS,
     sessions |->
        << [id |-> "s4kq0pz81mm2a", therapistId |-> "user-1", therapistName |-> "Jane Doe",
            patientName |-> <<"P">>, treatmentType |-> TreatmentType.PHYSIOTHERAPY,
            durationMinutes |-> 45, timestamp |-> 1, signatureDataUrl |-> toDataURL(1)],
           [id |-> "b07xw3n5tt9rc", therapistId |-> "user-2", therapistName |-> "Mark Smith",
            patientName |-> <<"P">>, treatmentType |-> TreatmentType.SPORTS_MASSAGE,
            durationMinutes |-> 60, timestamp |-> 0, signatureDataUrl |-> toDataURL(1)] >>]

DashInit ==
    /\ db = LoggedDb
    /\ localStorage = save(<<>>, LoggedDb)
    /\ \E u \in {INITIAL_USERS[1], INITIAL_USERS[2]} :
          /\ call = [op |-> "login", username |-> u.username, password |-> u.passwordHash]
          /\ ret = safeUser(u)
          /\ currentUser = safeUser(u)
          /\ currentRoute = IF u.role = "admin" THEN "payroll" ELSE "log"
          /\ sessions = getSessions(LoggedDb.sessions, u.id, u.role)
          /\ selectedMonth = IF u.role = "admin" THEN getMonth(2) ELSE getMonth(0)
          /\ selectedYear = IF u.role = "admin" THEN getFullYear(2) ELSE getFullYear(0)
    /\ patientName = <<>>
    /\ treatmentType = TreatmentType.SPORTS_MASSAGE
    /\ duration = 60
    /\ signature = NULL
    /\ isSubmitting = FALSE
    /\ isDrawing = FALSE
    /\ hasSignature = FALSE
    /\ canvas = 0
    /\ strokeMoves = FALSE
    /\ inkMoves = FALSE
    /\ timers = <<>>
    /\ now = 2
    /\ callbacks = <<>>
    /\ alerts = <<>>
    /\ error = ""
    /\ successMsg = ""
    /\ selectedTherapistId = "all"
    /\ aiReport = NULL
    /\ loadingAi = FALSE
    /\ requests = <<>>

DashNext ==
    \/ \E route \in {"log", "payroll"} : navigate(route)
    \/ \E m \in MonthOptions : dashEvent(setSelectedMonth(m))
    \/ \E y \in YearOptions : dashEvent(setSelectedYear(y))
    \/ \E id \in {"all"} \cup UserIds : dashEvent(setSelectedTherapistId(id))
    \/ dashEvent(handleGenerateReport)
    \/ \E i \in 1..Len(requests) : completionEvent(i, analysis(requests[i]))
    \/ \E i \in 1..Len(requests) : completionEvent(i, fallback)

DashSpec == DashInit /\ [][DashNext]_vars

-----------------------------------------------------------------------------
(* The application across accounts: sign-in, registration, sign-out and     *)
(* navigation, with one patient name to type, strokes on the pad, submit    *)
(* and the timer callback, in any order.  One account can be registered,    *)
(* as administrator or as therapist, so one draw of its id is enough.       *)

(* What is typed on the sign-in form: the administrator, the two seed      *)
(* therapists and the account registered as "sam" with their credentials;   *)
(* "sam" is refused until the account is registered.                        *)
OwnerLogins ==
    { <<<<"A","D","M","I","N">>, <<"p","h","y","s","i","o","1","2","3">>>>,
      <<<<"j","a","n","e">>, <<"p","a","s","s","w","o","r","d">>>>,
      <<<<"m","a","r","k">>, <<"p","a","s","s","w","o","r","d">>>>,
      <<<<"s","a","m">>, <<"P","a","s","s">>>> }

OwnerNext ==
    \/ \E l \in OwnerLogins : handleLogin(l[1], l[2])
    \/ \E id \in StoreIds, n \in NameInputs, u \in AppRegisterUsernames,
          p \in RegisterPasswords, r \in RoleInputs : handleRegister(id, n, u, p, r)
    \/ toggleMode
    \/ handleLogout
    \/ \E route \in Routes : navigate(route)
    \/ padEvent(startDrawing)
    \/ padEvent(draw)
    \/ padEvent(endDrawing)
    \/ formEvent(setPatientName(<<" ", "P">>))
    \/ \E id \in FormSessionIds : submitEvent(id)
    \/ timeoutEvent

OwnerSpec == Init /\ [][OwnerNext]_vars

-----------------------------------------------------------------------------
(* Vocabulary of the store properties. *)

Range(s) == {s[i] : i \in 1..Len(s)}

toUpperCaseText(s) ==
    [i \in 1..Len(s) |->
        IF \E k \in 1..Len(LowerCaseLetters) : LowerCaseLetters[k] = s[i]
        THEN UpperCaseLetters[CHOOSE k \in 1..Len(LowerCaseLetters) : LowerCaseLetters[k] = s[i]]
        ELSE s[i]]

Capitalized(s) ==
    [i \in 1..Len(s) |-> IF i = 1 THEN toUpperCaseText(s)[i] ELSE toLowerCase(s)[i]]

(* Spellings of s that differ from it in letter case at most. *)
CaseVariants(s) == {s, toLowerCase(s), toUpperCaseText(s), Capitalized(s)}

SameLetters(a, b) ==
    /\ Len(a) = Len(b)
    /\ \A i \in 1..Len(a) : toLowerCaseChar(a[i]) = toLowerCaseChar(b[i])

(* Credentials other than p: its other spellings, a prefix, an extension,   *)
(* the empty text and the credentials of the inputs.                        *)
WrongCredentials(p) ==
    (CaseVariants(p) \cup PasswordInputs \cup RegisterPasswords
        \cup {<<>>, p \o <<"1">>, SubSeq(p, 1, Len(p) - 1)}) \ {p}

SeedIds == {"admin-1", "user-1", "user-2"}

(* C1: every stored account, seed or registered, authenticates with its own *)
(* username and credential to an account of its name and role that carries  *)
(* no credential field; a successful Register stores the name and role it   *)
(* was given, and a login call with a stored username and credential        *)
(* returned such an account.                                                *)
C1_AuthenticateReturnsRegistered ==
    /\ \A i \in 1..Len(db.users) :
          LET u == db.users[i]
              r == login(db.users, u.username, u.passwordHash)
          IN  /\ r # NULL
              /\ r.name = u.name /\ r.role = u.role /\ r.id = u.id
              /\ DOMAIN r = {"id", "username", "name", "role"}
    /\ (call.op = "registerUser" /\ ret.success) =>
          LET r == login(db.users, call.username, call.password)
          IN  r # NULL /\ r.name = call.name /\ r.role = call.role
    /\ call.op = "login" =>
          \A i \in 1..Len(db.users) :
              (db.users[i].username = call.username
                  /\ db.users[i].passwordHash = call.password)
              => /\ ret # NULL
                 /\ ret.name = db.users[i].name /\ ret.role = db.users[i].role
                 /\ "passwordHash" \notin DOMAIN ret

C1_Witness ==
    /\ call.op = "login"
    /\ ret # NULL
    /\ ret.id \notin SeedIds
    /\ Len(db.users) = 5

(* C2: the username is looked up without regard to letter case and the      *)
(* credential is compared exactly: every spelling of a stored username with *)
(* the stored credential succeeds, every other credential returns none.     *)
C2_LookupCaseInsensitiveCredentialExact ==
    /\ \A i \in 1..Len(db.users) :
          LET u == db.users[i]
              wrong == WrongCredentials(u.passwordHash)
          IN  \A v \in CaseVariants(u.username) :
                LET r == login(db.users, v, u.passwordHash)
                IN  /\ r # NULL
                    /\ r.id = u.id
                    /\ \A p \in wrong : login(db.users, v, p) = NULL
    /\ call.op = "login" =>
          (ret # NULL <=>
              \E i \in 1..Len(db.users) :
                  /\ SameLetters(db.users[i].username, call.username)
                  /\ db.users[i].passwordHash = call.password)

C2_Witness ==
    /\ call.op = "login"
    /\ ret # NULL
    /\ ret.username # call.username
    /\ ret.id \notin SeedIds

(* C3: no two accounts have usernames equal under case-insensitive          *)
(* comparison.                                                              *)
C3_UsernamesUnique ==
    \A i, j \in 1..Len(db.users) :
        i # j => ~SameLetters(db.users[i].username, db.users[j].username)

C3_Witness ==
    /\ call.op = "registerUser"
    /\ ~ret.success
    /\ \E i \in 1..Len(db.users) :
          /\ db.users[i].id \notin SeedIds
          /\ db.users[i].username # call.username
          /\ SameLetters(db.users[i].username, call.username)

(* C4: Register with a username that an existing account has, letter case   *)
(* aside, returns success = false with 'Username already taken.' and leaves *)
(* the accounts, the sessions and the persisted document as they were.      *)
C4_DuplicateRegisterRejected ==
    [][ (/\ call'.op = "registerUser"
         /\ \E i \in 1..Len(db.users) :
               SameLetters(db.users[i].username, call'.username))
        => /\ ret' = [success |-> FALSE, message |-> "Username already taken."]
           /\ db'.users = db.users
           /\ db'.sessions = db.sessions
           /\ localStorage' = localStorage ]_vars

C4_Witness ==
    /\ call.op = "registerUser"
    /\ ret = [success |-> FALSE, message |-> "Username already taken."]
    /\ Len(db.sessions) > 0
    /\ \A i \in 1..Len(db.users) : db.users[i].username # call.username

(* The k-th index, in increasing order, of the stored sessions owned by id. *)
OwnedIndices(list, id) == {i \in 1..Len(list) : list[i].therapistId = id}

NthOwned(list, id, k) ==
    CHOOSE i \in OwnedIndices(list, id) :
        Cardinality({j \in OwnedIndices(list, id) : j < i}) = k - 1

OwnedInOrder(r, list, id) ==
    /\ Len(r) = Cardinality(OwnedIndices(list, id))
    /\ \A k \in 1..Len(r) : r[k] = list[NthOwned(list, id, k)]

NonAdminRoles == {"therapist", "Admin", ""}

(* C5: right after Append Session(s) with owner t, the therapist query for  *)
(* t has s first, the therapist query for any other id does not contain s,  *)
(* and the administrator query contains s whatever id is passed.            *)
C5_AppendThenQuery ==
    call.op = "addSession" =>
        LET s == call.session
            t == call.session.therapistId
        IN  /\ Len(getSessions(db.sessions, t, "therapist")) >= 1
            /\ getSessions(db.sessions, t, "therapist")[1] = s
            /\ \A u \in UserIds \ {t} :
                  s \notin Range(getSessions(db.sessions, u, "therapist"))
            /\ \A u \in UserIds :
                  s \in Range(getSessions(db.sessions, u, "admin"))

C5_Witness ==
    /\ call.op = "addSession"
    /\ Len(db.sessions) = 3
    /\ db.sessions[1] = call.session
    /\ db.sessions[2].therapistId = call.session.therapistId
    /\ db.sessions[2] # call.session
    /\ db.sessions[3].therapistId # call.session.therapistId

(* C6: a query with a role other than administrator returns exactly the     *)
(* stored sessions owned by the id, in the order of the stored sequence;    *)
(* with the administrator role it returns the whole stored sequence.        *)
C6_QueryByRole ==
    /\ \A id \in UserIds :
          /\ \A role \in NonAdminRoles :
                OwnedInOrder(getSessions(db.sessions, id, role), db.sessions, id)
          /\ getSessions(db.sessions, id, "admin") = db.sessions
    /\ call.op = "getSessions" =>
          IF call.role = "admin"
          THEN ret = db.sessions
          ELSE OwnedInOrder(ret, db.sessions, call.userId)

C6_Witness ==
    /\ call.op = "getSessions"
    /\ call.role = "therapist"
    /\ Len(db.sessions) = 3
    /\ Len(ret) = 2
    /\ ret[1] # ret[2]
    /\ db.sessions[2].therapistId # call.userId

(* C7: sessions are append-only and immutable: every step keeps the stored  *)
(* sessions, unchanged and in the same order, as the tail of the sequence,  *)
(* whose length never decreases.                                            *)
C7_SessionsAppendOnly ==
    [][ /\ Len(db'.sessions) >= Len(db.sessions)
        /\ \A i \in 1..Len(db.sessions) :
              db'.sessions[i + (Len(db'.sessions) - Len(db.sessions))] = db.sessions[i] ]_vars

C7_Witness ==
    /\ Len(db.sessions) = 3
    /\ db.sessions[1] # db.sessions[2]
    /\ call.op = "registerUser"
    /\ ret.success

-----------------------------------------------------------------------------
(* Properties of the session-entry form. *)

(* The sessions the form has appended or is about to append. *)
FormSessions ==
    Range(db.sessions) \cup {timers[i].session : i \in 1..Len(timers)}

IsBlank(s) == \A i \in 1..Len(s) : s[i] \in {" ", "\t", "\n"}

SubmitStep == \E id \in FormSessionIds : submitEvent(id)

(* C8: every session the form appends has duration 45 when its treatment    *)
(* kind is physiotherapy and a duration of 40, 45 or 60 when it is sports   *)
(* massage.                                                                 *)
C8_DurationByTreatment ==
    \A s \in FormSessions :
        /\ s.treatmentType \in {"Physiotherapy", "Sports Massage"}
        /\ s.treatmentType = "Physiotherapy" => s.durationMinutes = 45
        /\ s.treatmentType = "Sports Massage" => s.durationMinutes \in {40, 45, 60}

C8_Witness ==
    /\ Len(db.sessions) = 2
    /\ db.sessions[1].treatmentType = "Physiotherapy"
    /\ db.sessions[1].durationMinutes = 45
    /\ db.sessions[2].treatmentType = "Sports Massage"
    /\ db.sessions[2].durationMinutes = 40

(* C9: a submit while the signature is null, or while the patient name is   *)
(* empty or only whitespace, appends nothing and leaves the store as it     *)
(* was; every stored session has a signature and a non-empty patient name.  *)
C9_StoredSessionsSigned ==
    \A s \in FormSessions :
        /\ s.signatureDataUrl # NULL
        /\ s.patientName # <<>>
        /\ ~IsBlank(s.patientName)

C9_SubmitRequiresSignatureAndName ==
    /\ []C9_StoredSessionsSigned
    /\ [][ (SubmitStep /\ (signature = NULL \/ IsBlank(patientName)))
            => /\ db' = db
               /\ localStorage' = localStorage
               /\ timers' = timers
               /\ isSubmitting' = isSubmitting ]_vars

C9_Witness ==
    /\ alerts = <<"Patient name is required.">>
    /\ signature # NULL
    /\ patientName = <<" ">>
    /\ Len(db.sessions) = 1
    /\ timers = <<>>

(* C10: in every state of the widget, a stroke that ends with no move event *)
(* since its pointer-down does not call the 'signature finalized' callback. *)
C10_StrokeWithoutMoveEmitsNothing ==
    [][ (padEvent(endDrawing) /\ isDrawing /\ ~strokeMoves)
        => \A i \in 1..Len(callbacks') : callbacks'[i].name # "onEnd" ]_vars

-----------------------------------------------------------------------------
(* Properties of the signature capture widget. *)

EndStep == padEvent(endDrawing)

MoveStep == padEvent(draw)

ClearStep == padEvent(clearCanvas)

(* The ending event called 'signature finalized' exactly once, with the     *)
(* image of an inked surface, which the form now holds, and no stroke is in *)
(* progress.                                                                *)
EmittedOnce ==
    /\ callbacks' = <<onEnd(toDataURL(canvas))>>
    /\ callbacks'[1].arg # NULL
    /\ callbacks'[1].arg.dataUrl >= 1
    /\ signature' = callbacks'[1].arg
    /\ ~isDrawing'

(* An ending or move event while no stroke is in progress calls no callback *)
(* and produces no ink.                                                     *)
IdleEventsInert ==
    ((EndStep \/ MoveStep) /\ ~isDrawing)
        => /\ callbacks' = <<>>
           /\ canvas' = canvas
           /\ hasSignature' = hasSignature
           /\ signature' = signature
           /\ ~isDrawing'

(* C11 as stated: a stroke with at least one move event between its         *)
(* pointer-down and its ending event calls 'signature finalized' exactly    *)
(* once with a non-null image and leaves no stroke in progress; an ending   *)
(* or move event while no stroke is in progress calls no callback and       *)
(* produces no ink.                                                         *)
C11_StrokeWithMoveEmitsOnce ==
    [][ /\ (EndStep /\ isDrawing /\ strokeMoves) => EmittedOnce
        /\ IdleEventsInert ]_vars

(* C11, amended: a stroke with at least one move event after its            *)
(* pointer-down and after any Clear pressed during the stroke calls         *)
(* 'signature finalized' exactly once with a non-null image and leaves no   *)
(* stroke in progress; an ending or move event while no stroke is in        *)
(* progress calls no callback and produces no ink.                          *)
C11_StrokeWithInkEmitsOnce ==
    [][ /\ (EndStep /\ isDrawing /\ inkMoves) => EmittedOnce
        /\ IdleEventsInert ]_vars

C11_Witness ==
    /\ callbacks = <<onEnd(toDataURL(canvas))>>
    /\ canvas >= 1
    /\ signature = toDataURL(canvas)
    /\ ~isDrawing
    /\ hasSignature

(* C12: in every state of the widget, Clear resets 'has ink' to false and   *)
(* calls 'signature finalized' once with null and then 'signature cleared'  *)
(* once, after which the form's signature is null.                          *)
C12_ClearEmitsNullThenCleared ==
    [][ ClearStep
        => /\ ~hasSignature'
           /\ callbacks' = <<onEnd(NULL), onClear>>
           /\ signature' = NULL ]_vars

C12_Witness ==
    /\ callbacks = <<onEnd(NULL), onClear>>
    /\ ~hasSignature
    /\ signature = NULL
    /\ isDrawing
    /\ timers # <<>>

-----------------------------------------------------------------------------
(* Properties of the store's initialisation and persistence. *)

ConstructorStep == call'.op = "constructor"

Throws(r) == r = TypeError \/ r = SyntaxError

(* The document persisted under the current key. *)
persisted == getItem(localStorage, DB_KEY)

(* The seed data: the administrator and the two therapists, no session. *)
IsSeed(d) ==
    /\ d = INITIAL_DB
    /\ Len(d.users) = 3
    /\ Cardinality({i \in 1..3 : d.users[i].role = "admin"}) = 1
    /\ Cardinality({i \in 1..3 : d.users[i].role = "therapist"}) = 2
    /\ d.sessions = <<>>

(* The constructor left the seed data in the store and under the key. *)
SeededAndPersisted ==
    /\ IsSeed(db')
    /\ getItem(localStorage', DB_KEY) = JSON_stringify(INITIAL_DB)
    /\ JSON_parse(getItem(localStorage', DB_KEY)) = db'
    /\ ret' = NULL

(* C13: Initialize with nothing under the current versioned key, whether or *)
(* not an older version left a document under its own key, leaves the store *)
(* holding exactly the seed data and the persisted document equal to it.    *)
C13_AbsentOrOlderVersionSeeds ==
    [][ (ConstructorStep /\ persisted = NULL) => SeededAndPersisted ]_vars

C13_Witness ==
    /\ call.op = "constructor"
    /\ db = INITIAL_DB
    /\ persisted = JSON_stringify(INITIAL_DB)
    /\ getItem(localStorage, OLDER_KEY) = JSON_stringify(StoredDb)

(* The payload is not the document of a store: it does not parse, or what   *)
(* it parses to lacks the users or the sessions sequence.                   *)
Malformed(stored) ==
    /\ stored # NULL
    /\ \/ ~parses(stored)
       \/ ~has(JSON_parse(stored), "users")
       \/ ~has(JSON_parse(stored), "sessions")

(* C14: Initialize with a malformed payload resets the store to the seed    *)
(* data and persists it, as with no payload, and neither Initialize nor any *)
(* later store operation raises a fault.                                    *)
C14_MalformedTreatedAsAbsent ==
    [][ /\ (ConstructorStep /\ Malformed(persisted)) => SeededAndPersisted
        /\ ~Throws(ret') ]_vars

(* C15: whenever the store is constructed, the persisted document is the    *)
(* JSON text of its accounts and sessions, and a store constructed anew     *)
(* from it holds the same accounts and the same sessions in the same order. *)
PersistedIsMemory ==
    constructed =>
        /\ persisted = JSON_stringify(db)
        /\ parses(persisted)
        /\ JSON_parse(persisted) = db

C15_PersistedEqualsMemory ==
    /\ []PersistedIsMemory
    /\ [][ (ConstructorStep /\ constructed) => db' = db ]_vars

C15_Witness ==
    /\ call.op = "constructor"
    /\ has(db, "users") /\ has(db, "sessions")
    /\ Len(db.users) = 5
    /\ Len(db.sessions) = 3
    /\ db.sessions[1].therapistId # db.sessions[2].therapistId

-----------------------------------------------------------------------------
(* Properties of the login page. *)

(* The account the lookup of login finds for the username, if any. *)
UnknownUsername(username) == find(db.users, username) = NULL

WrongCredential(username, password) ==
    /\ find(db.users, username) # NULL
    /\ find(db.users, username).passwordHash # password

(* What a rejected sign-in leaves: none returned, the one inline message,   *)
(* nobody logged in, the same screen, the store and its document as before. *)
Rejected ==
    /\ ret' = NULL
    /\ error' = "Invalid username or password"
    /\ successMsg' = ""
    /\ currentUser' = NULL
    /\ currentRoute' = currentRoute
    /\ sessions' = sessions
    /\ db' = db
    /\ localStorage' = localStorage

(* C16: a sign-in with a username no account has and a sign-in with the     *)
(* username of an account and another credential give the same result:      *)
(* none, the message 'Invalid username or password', the store unchanged.   *)
C16_RejectionsIndistinguishable ==
    [][ \A u \in AppUsernames, p \in AppPasswords :
            /\ (handleLogin(u, p) /\ UnknownUsername(u)) => Rejected
            /\ (handleLogin(u, p) /\ WrongCredential(u, p)) => Rejected ]_vars

C16_Witness ==
    /\ call.op = "login"
    /\ ret = NULL
    /\ error = "Invalid username or password"
    /\ find(db.users, call.username) # NULL
    /\ find(db.users, call.username).id \notin SeedIds
    /\ find(db.users, call.username).passwordHash # call.password
    /\ currentUser = NULL

-----------------------------------------------------------------------------
(* Properties of the account sequence. *)

TherapistIndices(users) == {i \in 1..Len(users) : users[i].role = "therapist"}

NthTherapist(users, k) ==
    CHOOSE i \in TherapistIndices(users) :
        Cardinality({j \in TherapistIndices(users) : j < i}) = k - 1

(* r lists the therapist accounts of users, in their order, each with its   *)
(* id, username, name and role and nothing else.                            *)
TherapistsInOrder(r, users) ==
    /\ Len(r) = Cardinality(TherapistIndices(users))
    /\ \A k \in 1..Len(r) :
          LET u == users[NthTherapist(users, k)]
          IN  /\ DOMAIN r[k] = {"id", "username", "name", "role"}
              /\ r[k].id = u.id /\ r[k].username = u.username
              /\ r[k].name = u.name /\ r[k].role = "therapist"

RegisterStep == call'.op = "registerUser" /\ ret'.success

(* C17: in every state of the store, List Therapists returns exactly the    *)
(* therapist accounts, without credential, in storage order: the two seed   *)
(* therapists first, then each registered therapist at the end as it is     *)
(* registered; a registered administrator is never listed.                  *)
ListsTherapists ==
    /\ TherapistsInOrder(getAllTherapists(db.users), db.users)
    /\ Len(getAllTherapists(db.users)) >= 2
    /\ getAllTherapists(db.users)[1].id = "user-1"
    /\ getAllTherapists(db.users)[2].id = "user-2"
    /\ call.op = "getAllTherapists" => TherapistsInOrder(ret, db.users)

C17_ListTherapistsInStorageOrder ==
    /\ []ListsTherapists
    /\ [][ RegisterStep =>
              LET before == getAllTherapists(db.users)
                  after == getAllTherapists(db'.users)
              IN  IF call'.role = "therapist"
                  THEN /\ Len(after) = Len(before) + 1
                       /\ SubSeq(after, 1, Len(before)) = before
                       /\ after[Len(after)].username = call'.username
                       /\ after[Len(after)].name = call'.name
                  ELSE after = before ]_vars

C17_Witness ==
    /\ call.op = "getAllTherapists"
    /\ Len(db.users) = 5
    /\ db.users[4].role = "admin"
    /\ db.users[5].role = "therapist"
    /\ Len(ret) = 3
    /\ ret[3].username = db.users[5].username

(* C19: a successful Register appends exactly one account, with the name,   *)
(* username, credential and role it was given, at the end of the account    *)
(* sequence and leaves the sessions as they were; every step of the store   *)
(* keeps the existing accounts, unchanged, at their places.                 *)
C19_RegisterAppendsOneAccount ==
    [][ /\ RegisterStep =>
              /\ Len(db'.users) = Len(db.users) + 1
              /\ LET u == db'.users[Len(db'.users)]
                 IN  /\ u.name = call'.name /\ u.username = call'.username
                     /\ u.passwordHash = call'.password /\ u.role = call'.role
              /\ db'.sessions = db.sessions
        /\ Len(db'.users) >= Len(db.users)
        /\ \A i \in 1..Len(db.users) : db'.users[i] = db.users[i] ]_vars

C19_Witness ==
    /\ call.op = "registerUser"
    /\ ret.success
    /\ Len(db.users) = 5
    /\ db.users[5].username = call.username
    /\ db.users[5].role = "admin"
    /\ db.users[4].username # call.username
    /\ Len(db.sessions) = 2

-----------------------------------------------------------------------------
(* Properties of the payroll dashboard. *)

GenerateStep == dashEvent(handleGenerateReport)

(* C18: at most one text-generation request is in flight at any time, and   *)
(* 'Generate Analysis' is never accepted while an earlier request has not   *)
(* returned.                                                                *)
C18_OneRequestInFlight ==
    [][ /\ Len(requests') <= 1
        /\ GenerateStep => requests = <<>> ]_vars

-----------------------------------------------------------------------------
(* Properties of the delayed append. *)

(* A submit the form accepted: a timer was set. *)
AcceptedSubmit == SubmitStep /\ Len(timers') = Len(timers) + 1

(* The session pending in the i-th timer. *)
pending(i) == timers[i].session

(* Every accepted submit so far has its session appended or pending, once,  *)
(* the earlier submits deeper in the store and first among the timers.      *)
OnceEach ==
    /\ Len(db.sessions) + Len(timers) = now
    /\ \A i \in 1..Len(db.sessions) : db.sessions[i].timestamp = Len(db.sessions) - i
    /\ \A i \in 1..Len(timers) : pending(i).timestamp = Len(db.sessions) + i - 1

(* A step sets a timer for the session the form shows, appends the session *)
(* of the oldest timer, or leaves the store's sessions and the pending ones *)
(* as they were.                                                            *)
SubmittedThenAppended ==
    /\ AcceptedSubmit =>
          timers'[Len(timers')].session =
              [id |-> timers'[Len(timers')].session.id,
               therapistId |-> currentUser.id, therapistName |-> currentUser.name,
               patientName |-> patientName, treatmentType |-> treatmentType,
               durationMinutes |-> duration, timestamp |-> now,
               signatureDataUrl |-> signature]
    /\ timeoutEvent =>
          /\ db'.sessions = <<pending(1)>> \o db.sessions
          /\ \A i \in 1..Len(timers') : timers'[i].session = pending(i + 1)
    /\ ~timeoutEvent =>
          /\ db'.sessions = db.sessions
          /\ \A i \in 1..Len(timers) : timers'[i].session = pending(i)

(* C20: every accepted submit is eventually followed by exactly one Append  *)
(* Session, of a session with the owner id and name, the patient name, the  *)
(* treatment kind, the duration, the signature and the instant of the       *)
(* submit, whatever is edited, cleared or logged out before the timer       *)
(* fires.                                                                   *)
C20_SubmitAppendsOnceAsSubmitted ==
    /\ []OnceEach
    /\ [][SubmittedThenAppended]_vars
    /\ \A n \in 1..MaxSubmits : (now >= n) ~> (Len(db.sessions) >= n)

C20_Witness ==
    /\ currentUser = NULL
    /\ timers = <<>>
    /\ Len(db.sessions) = 2
    /\ db.sessions[1].therapistId = "user-1"
    /\ db.sessions[1].patientName = <<" ", "P">>
    /\ db.sessions[1].treatmentType = "Sports Massage"
    /\ db.sessions[2].treatmentType = "Physiotherapy"
    /\ call.op = "addSession"

-----------------------------------------------------------------------------
(* Properties of the application across accounts. *)

(* C21: whenever a therapist is logged in, the session list the application *)
(* holds for display contains only sessions whose therapistId is that       *)
(* user's id, whatever the order of submit, the timer callback, logout and  *)
(* login of another account.                                                *)
C21_DisplayedSessionsOwned ==
    (currentUser # NULL /\ currentUser.role = "therapist")
        => \A i \in 1..Len(sessions) : sessions[i].therapistId = currentUser.id

-----------------------------------------------------------------------------
(* Properties of the form after its reset. *)

(* The timer callback of a form that is still mounted: it appends the      *)
(* session and resets the form.                                             *)
ResetStep == timeoutEvent /\ Head(timers).live

(* A step that gives the form a signature it did not have. *)
SignatureSet == signature = NULL /\ signature' # NULL

SignedByNewInk ==
    /\ ResetStep => signature' = NULL
    /\ (SignatureSet /\ db.sessions # <<>>) => (padEvent(endDrawing) /\ inkMoves)

(* C22: the reset after a successful submission leaves the form's signature *)
(* null, and it stays null until a stroke with at least one move event      *)
(* ends: the form gets no signature from ink that an earlier session        *)
(* already carries.                                                         *)
C22_SignatureNullUntilNewStroke == [][SignedByNewInk]_vars

-----------------------------------------------------------------------------
(* Properties of the generated report. *)

(* The dashboard shows a generated report: the fallback text reports on no  *)
(* session.                                                                 *)
ShowsReport == dashMounted(currentUser, currentRoute) /\ aiReport # NULL /\ aiReport # fallback

(* C23: a generated report the dashboard shows was produced from the        *)
(* sessions that match the month, year and therapist now selected, for the  *)
(* month now selected, whatever the order of generate actions, filter       *)
(* changes and request completions.                                         *)
C23_ReportMatchesFilters ==
    ShowsReport =>
        /\ aiReport.sessions = filteredSessions
        /\ aiReport.monthName = selectedMonth

-----------------------------------------------------------------------------
(* Properties of the stored sessions' owners. *)

(* Some account has the session's therapistId, the role therapist and the   *)
(* name the session carries as therapistName.                               *)
OwnedByTherapist(session) ==
    \E j \in 1..Len(db.users) :
        /\ db.users[j].id = session.therapistId
        /\ db.users[j].role = "therapist"
        /\ db.users[j].name = session.therapistName

StoredSessionsOwned ==
    /\ \A i \in 1..Len(db.sessions) : OwnedByTherapist(db.sessions[i])
    /\ \A i \in 1..Len(timers) : OwnedByTherapist(pending(i))

(* A submit is accepted from a logged-in therapist only, and a session is   *)
(* appended only by the timer of such a submit.                             *)
AppendedByTherapist ==
    /\ AcceptedSubmit => (currentUser # NULL /\ currentUser.role = "therapist")
    /\ db'.sessions # db.sessions =>
          (timeoutEvent /\ db'.sessions = <<pending(1)>> \o db.sessions)

(* C24: through login, register, logout, navigation and form submission,    *)
(* every stored session's therapistId is the id of an account with role     *)
(* therapist whose name is the session's therapistName, and no step taken   *)
(* by an administrator sets a timer that appends a session.                 *)
C24_SessionsOwnedByTherapists ==
    /\ []StoredSessionsOwned
    /\ [][AppendedByTherapist]_vars

C24_Witness ==
    /\ Len(db.sessions) = 2
    /\ \E i \in 1..2 : db.sessions[i].therapistId \in RandomIds
    /\ \E i \in 1..2 : db.sessions[i].therapistId = "user-1"
    /\ currentUser # NULL
    /\ currentUser.role = "admin"
    /\ currentRoute = "log"
    /\ call.op = "addSession"

====
